---- MODULE Spec2Model ----
(***************************************************************************)
(* State-machine model of the centers application: ProjectCenter,          *)
(* Participant, UserProfile and AuditLog rows (centers/models.py), the     *)
(* staff views and the CSV preview / confirm-import view                   *)
(* (centers/views.py) and the admin surface (centers/admin.py).            *)
(* One action per request handler; every handler runs to completion        *)
(* (one request at a time).                                                *)
(***************************************************************************)
EXTENDS Integers, Sequences, FiniteSets, TLC

VARIABLES centers, participants, nextPk, profile, auditLog, session, resp,
          requests, commit

vars == <<centers, participants, nextPk, profile, auditLog, session, resp,
          requests, commit>>

(***************************************************************************)
(* Bounds of the model.                                                    *)
(***************************************************************************)
MaxRequests == 4  \* requests served in one behaviour
MaxFaultRequests == 3  \* requests served in one behaviour with failing audit writes

(***************************************************************************)
(* Values.                                                                 *)
(***************************************************************************)
NULL == "NULL"                      \* SQL NULL / Python None
NoPk == 0                           \* pk of an instance not yet saved (None)
Codes == {"c1", "c2"}               \* center_code values
Pids == {"p1", "p2"}                \* participant_id values typed into forms
Users == {"staff1", "natstaff", "root", "nobody"}

\* is_superuser flag of the identity
IsSuperuser(u) == u = "root"

\* membership of the group "National Office"
InNationalGroup(u) == u = "natstaff"

\* views.is_national_officer
is_national_officer(u) == InNationalGroup(u)

\* mutant: every authenticated caller passes
AnyAuthenticatedUser(u) == TRUE

\* views.is_national_or_superuser
is_national_or_superuser(u) == IsSuperuser(u) \/ is_national_officer(u)

\* views._get_user_center: the center of the caller's UserProfile, or None
get_user_center(u) == profile[u]

(***************************************************************************)
(* Field validation (models.py validators).                                *)
(***************************************************************************)
\* house_latitude: MinValueValidator(-90), MaxValueValidator(90)
LatitudeValid(lat) == lat >= -90 /\ lat <= 90

StoredIds(ps) == {p.participant_id : p \in ps}

\* mutant: participant_id declared without unique=True
ParticipantIdUnchecked(ps, pid, selfPk) == TRUE

\* participant_id unique=True, as validate_unique sees it: no other row
\* (other than the instance itself) carries the id
ParticipantIdFree(ps, pid, selfPk) ==
    \A p \in ps : p.participant_id = pid => p.pk = selfPk

\* Model.full_clean / ModelForm validation of a participant
FullCleanOk(ps, pid, lat, selfPk) ==
    /\ pid # ""
    /\ LatitudeValid(lat)
    /\ ParticipantIdFree(ps, pid, selfPk)

(***************************************************************************)
(* AuditLog (models.py).  auditLog is the table: a set of rows keyed by pk.*)
(***************************************************************************)
RECURSIVE SetMax(_)
SetMax(S) == IF S = {} THEN 0
             ELSE LET x == CHOOSE y \in S : TRUE
                      m == SetMax(S \ {x})
                  IN IF x > m THEN x ELSE m

\* the pk the database gives the next inserted AuditLog row
NextLogPk(log) == SetMax({r.pk : r \in log}) + 1

\* django Model.save: INSERT when the instance has no pk, otherwise UPDATE
\* of the row with that pk (or INSERT under that pk when none exists).
\* auto_now_add sets timestamp on insert only.
ModelSave(log, inst) ==
    IF inst.pk = NoPk
    THEN log \cup {[inst EXCEPT !.pk = NextLogPk(log),
                                !.timestamp = NextLogPk(log)]}
    ELSE {r \in log : r.pk # inst.pk} \cup {inst}

\* django Model.delete: remove the row with the instance's pk
ModelDelete(log, inst) == {r \in log : r.pk # inst.pk}

\* mutant: save() without the pk guard
AuditLogSaveUnguarded(log, inst) == [raised |-> FALSE, log |-> ModelSave(log, inst)]

\* AuditLog.save: "Allow creation, but block updates."
AuditLogSave(log, inst) ==
    IF inst.pk # NoPk
    THEN [raised |-> TRUE, log |-> log]
    ELSE [raised |-> FALSE, log |-> ModelSave(log, inst)]

\* AuditLog.delete: "Block deletion."
AuditLogDelete(log, inst) == [raised |-> TRUE, log |-> log]

\* the details text of an entry: its wording and the numbers it carries
Details(text, created, skipped, cc) ==
    [text |-> text, created |-> created, skipped |-> skipped, centers |-> cc]

\* mutant: the entry is built without its center
NewAuditLogWithoutCenter(user, action, center, pid, details) ==
    [pk |-> NoPk, user |-> user, action |-> action, timestamp |-> 0,
     project_center |-> NULL, participant_id |-> pid, details |-> details]

\* an AuditLog instance not yet saved
NewAuditLog(user, action, center, pid, details) ==
    [pk |-> NoPk, user |-> user, action |-> action, timestamp |-> 0,
     project_center |-> center, participant_id |-> pid, details |-> details]

\* views._log_action: AuditLog.objects.create inside try/except Exception:
\* pass.  writeOk = FALSE is a write the database refuses (the exception is
\* swallowed and nothing is stored).
log_action(log, writeOk, user, action, center, pid, details) ==
    IF writeOk
    THEN AuditLogSave(log, NewAuditLog(user, action, center, pid, details)).log
    ELSE log

(***************************************************************************)
(* Participant table.                                                      *)
(***************************************************************************)
NewParticipant(pk, center, pid, lat) ==
    [pk |-> pk, project_center |-> center, participant_id |-> pid,
     house_latitude |-> lat]

\* mutant: the table has no unique constraint on participant_id
ParticipantInsertUnconstrained(ps, pk, center, pid, lat) ==
    [raised |-> FALSE, participants |-> ps \cup {NewParticipant(pk, center, pid, lat)}]

\* Participant.save() of a new instance: the database refuses a row that
\* breaks the unique constraint on participant_id (IntegrityError).
ParticipantInsert(ps, pk, center, pid, lat) ==
    IF ParticipantIdFree(ps, pid, pk)
    THEN [raised |-> FALSE, participants |-> ps \cup {NewParticipant(pk, center, pid, lat)}]
    ELSE [raised |-> TRUE, participants |-> ps]

(***************************************************************************)
(* The response of the last request.                                       *)
(***************************************************************************)
Response(op, u, status) ==
    [op |-> op, user |-> u, status |-> status, pk |-> NoPk, pid |-> NULL,
     total |-> 0, valid |-> 0, created |-> 0, skipped |-> 0, errors |-> {}]

(***************************************************************************)
(* CSV upload: parse_csv of participant_upload.                            *)
(* A file is [header, rows]; header is "ok", "none" (no header line) or    *)
(* "missing" (a required column is absent).  A data row carries the three  *)
(* columns the checks read: center_code, participant_id, house_latitude.   *)
(***************************************************************************)
RawRow(code, pid, lat) ==
    [center_code |-> code, participant_id |-> pid, house_latitude |-> lat]

\* the per-row try block: the first failing check gives the row its error
RowError(raw, cs, ps) ==
    IF raw.center_code = "" THEN "center_code is empty"
    ELSE IF raw.center_code \notin cs THEN "ProjectCenter.DoesNotExist"
    ELSE IF raw.participant_id = "" THEN "participant_id is empty"
    ELSE IF raw.participant_id \in StoredIds(ps) THEN "participant_id already exists"
    ELSE IF ~FullCleanOk(ps, raw.participant_id, raw.house_latitude, NoPk)
         THEN "ValidationError"
    ELSE ""

\* one annotated row r of the preview; row_number = enumerate(reader, start=2)
ParseRow(idx, raw, cs, ps) ==
    [row_number |-> idx + 1,
     center_code |-> raw.center_code,
     participant_id |-> raw.participant_id,
     house_latitude |-> raw.house_latitude,
     is_valid |-> RowError(raw, cs, ps) = "",
     error |-> RowError(raw, cs, ps)]

\* mutant: a row whose id appears in an earlier row of the file is flagged
parse_csv_seen_ids(file, cs, ps) ==
    IF file.header = "none" THEN [raised |-> TRUE, rows |-> <<>>]
    ELSE IF file.header = "missing" THEN [raised |-> TRUE, rows |-> <<>>]
    ELSE [raised |-> FALSE,
          rows |-> [i \in 1..Len(file.rows) |->
                      IF \E k \in 1..(i - 1) :
                            file.rows[k].participant_id = file.rows[i].participant_id
                      THEN [ParseRow(i, file.rows[i], cs, ps)
                               EXCEPT !.is_valid = FALSE,
                                      !.error = "participant_id repeated"]
                      ELSE ParseRow(i, file.rows[i], cs, ps)]]

\* parse_csv: raises ValueError for a bad header, otherwise one annotated row
\* per data row, each validated against the database alone
parse_csv(file, cs, ps) ==
    IF file.header = "none" THEN [raised |-> TRUE, rows |-> <<>>]
    ELSE IF file.header = "missing" THEN [raised |-> TRUE, rows |-> <<>>]
    ELSE [raised |-> FALSE,
          rows |-> [i \in 1..Len(file.rows) |-> ParseRow(i, file.rows[i], cs, ps)]]

\* preview_summary
PreviewValid(rows) == Cardinality({i \in 1..Len(rows) : rows[i].is_valid})

(***************************************************************************)
(* confirm_import: the commit loop over the session's rows.                *)
(* acc = [participants, nextPk, created, skipped, errors, created_centers];*)
(* errors holds the row numbers of the rows that raised.                   *)
(***************************************************************************)
Skip(acc) == [acc EXCEPT !.skipped = @ + 1]

\* the except branch: skipped += 1; errors.append(...)
SkipError(r, acc) == [acc EXCEPT !.skipped = @ + 1,
                                !.errors = @ \cup {r.row_number}]

\* mutant: the "already stored" branch continues without skipped += 1
CommitRowStoredIdUncounted(r, cs, acc) ==
    IF ~r.is_valid THEN Skip(acc)
    ELSE IF r.center_code \notin cs THEN SkipError(r, acc)
    ELSE IF r.participant_id \in StoredIds(acc.participants) THEN acc
    ELSE IF ~FullCleanOk(acc.participants, r.participant_id,
                         r.house_latitude, NoPk) THEN SkipError(r, acc)
    ELSE LET ins == ParticipantInsert(acc.participants, acc.nextPk,
                        r.center_code, r.participant_id, r.house_latitude)
         IN IF ins.raised THEN SkipError(r, acc)
            ELSE [acc EXCEPT !.participants = ins.participants,
                             !.nextPk = @ + 1,
                             !.created = @ + 1,
                             !.created_centers = @ \cup {r.center_code}]

\* mutant: rows flagged at preview are passed over without skipped += 1
CommitRowInvalidUncounted(r, cs, acc) ==
    IF ~r.is_valid THEN acc
    ELSE IF r.center_code \notin cs THEN SkipError(r, acc)
    ELSE IF r.participant_id \in StoredIds(acc.participants) THEN Skip(acc)
    ELSE IF ~FullCleanOk(acc.participants, r.participant_id,
                         r.house_latitude, NoPk) THEN SkipError(r, acc)
    ELSE LET ins == ParticipantInsert(acc.participants, acc.nextPk,
                        r.center_code, r.participant_id, r.house_latitude)
         IN IF ins.raised THEN SkipError(r, acc)
            ELSE [acc EXCEPT !.participants = ins.participants,
                             !.nextPk = @ + 1,
                             !.created = @ + 1,
                             !.created_centers = @ \cup {r.center_code}]

\* mutant: the center is not looked up again at commit
CommitRowNoCenterLookup(r, cs, acc) ==
    IF ~r.is_valid THEN Skip(acc)
    ELSE IF r.participant_id \in StoredIds(acc.participants) THEN Skip(acc)
    ELSE IF ~FullCleanOk(acc.participants, r.participant_id,
                         r.house_latitude, NoPk) THEN SkipError(r, acc)
    ELSE LET ins == ParticipantInsert(acc.participants, acc.nextPk,
                        r.center_code, r.participant_id, r.house_latitude)
         IN IF ins.raised THEN SkipError(r, acc)
            ELSE [acc EXCEPT !.participants = ins.participants,
                             !.nextPk = @ + 1,
                             !.created = @ + 1,
                             !.created_centers = @ \cup {r.center_code}]

\* mutant: rows flagged at preview are validated again at commit
CommitRowRevalidatesAll(r, cs, acc) ==
    IF r.center_code \notin cs THEN SkipError(r, acc)
    ELSE IF r.participant_id \in StoredIds(acc.participants) THEN Skip(acc)
    ELSE IF ~FullCleanOk(acc.participants, r.participant_id,
                         r.house_latitude, NoPk) THEN SkipError(r, acc)
    ELSE LET ins == ParticipantInsert(acc.participants, acc.nextPk,
                        r.center_code, r.participant_id, r.house_latitude)
         IN IF ins.raised THEN SkipError(r, acc)
            ELSE [acc EXCEPT !.participants = ins.participants,
                             !.nextPk = @ + 1,
                             !.created = @ + 1,
                             !.created_centers = @ \cup {r.center_code}]

\* the body of "for r in rows"
CommitRow(r, cs, acc) ==
    IF ~r.is_valid THEN Skip(acc)
    ELSE IF r.center_code \notin cs THEN SkipError(r, acc)    \* DoesNotExist
    ELSE IF r.participant_id \in StoredIds(acc.participants) THEN Skip(acc)
    ELSE IF ~FullCleanOk(acc.participants, r.participant_id,
                         r.house_latitude, NoPk) THEN SkipError(r, acc)  \* full_clean
    ELSE LET ins == ParticipantInsert(acc.participants, acc.nextPk,
                        r.center_code, r.participant_id, r.house_latitude)
         IN IF ins.raised THEN SkipError(r, acc)              \* p.save()
            ELSE [acc EXCEPT !.participants = ins.participants,
                             !.nextPk = @ + 1,
                             !.created = @ + 1,
                             !.created_centers = @ \cup {r.center_code}]

RECURSIVE CommitLoop(_, _, _)
CommitLoop(rows, cs, acc) ==
    IF rows = <<>> THEN acc
    ELSE CommitLoop(Tail(rows), cs, CommitRow(Head(rows), cs, acc))

CommitStart(ps, npk) ==
    [participants |-> ps, nextPk |-> npk, created |-> 0, skipped |-> 0,
     errors |-> {}, created_centers |-> {}]

\* mutant: the entry repeats the created counter where skipped belongs
ImportDetailsCreatedTwice(done) ==
    Details("CSV import completed", done.created, done.created,
            done.created_centers)

\* the details of the CSV_IMPORT entry: Created=, Skipped=, Centers=
ImportDetails(done) ==
    Details("CSV import completed", done.created, done.skipped,
            done.created_centers)

(***************************************************************************)
(* Inputs of the requests.                                                 *)
(***************************************************************************)
Methods == {"GET", "POST"}
\* what a ParticipantForm POST carries: participant_id and house_latitude
FormData == {[pid |-> "p1", lat |-> 45], [pid |-> "p2", lat |-> 45],
             [pid |-> "", lat |-> 45], [pid |-> "p1", lat |-> 91]}
NoData == [pid |-> "", lat |-> 0]   \* a GET carries no form data
\* the identities whose upload requests are explored
UploadCallers == {"natstaff", "staff1", "nobody"}

NoFile == [header |-> "nofile", rows |-> <<>>]
Files ==
    { [header |-> "none", rows |-> <<>>],
      [header |-> "missing", rows |-> <<>>],
      [header |-> "ok", rows |-> <<>>],
      [header |-> "ok", rows |-> <<RawRow("c1", "p1", 45), RawRow("c1", "p2", 45),
                                   RawRow("zz", "p3", 45)>>],
      [header |-> "ok", rows |-> <<RawRow("c2", "p1", 45), RawRow("c1", "p1", 45)>>],
      [header |-> "ok", rows |-> <<RawRow("", "p1", 45), RawRow("c1", "", 45),
                                   RawRow("c1", "p1", 91)>>] }

NoSession == [present |-> FALSE, rows |-> <<>>]

\* the sessions whose confirm-import is followed row by row when two
\* commits run at once, and the state of a commit that is not running
Committers == {"natstaff", "root"}
IdleCommit == [pc |-> "idle", rows |-> <<>>, i |-> 0, created |-> 0, skipped |-> 0,
               errors |-> {}, created_centers |-> {}]

(***************************************************************************)
(* Init: two centers, one participant in each, staff1 scoped to c1 and     *)
(* natstaff (National Office group) scoped to c2.                          *)
(***************************************************************************)
Init ==
    /\ centers = {"c1", "c2"}
    /\ participants = {NewParticipant(1, "c1", "p2", 45),
                       NewParticipant(2, "c2", "p3", 45)}
    /\ nextPk = 3
    /\ profile = [u \in Users |-> IF u = "staff1" THEN "c1"
                                  ELSE IF u = "natstaff" THEN "c2" ELSE NULL]
    /\ auditLog = {}
    /\ session = [u \in Users |-> NoSession]
    /\ resp = Response("none", NULL, "none")
    /\ requests = 0
    /\ commit = [u \in Committers |-> IdleCommit]

(***************************************************************************)
(* Staff views.                                                            *)
(***************************************************************************)
\* Participant.objects.filter(project_center=center)
CenterParticipants(ps, center) == {p \in ps : p.project_center = center}

\* views.participant_list: [status, participants]
participant_list(u) ==
    LET center == get_user_center(u) IN
    IF center = NULL
    THEN IF IsSuperuser(u) THEN [status |-> "redirect_admin", participants |-> {}]
         ELSE IF is_national_officer(u)
              THEN [status |-> "redirect_national", participants |-> {}]
         ELSE [status |-> "forbidden", participants |-> {}]
    ELSE [status |-> "ok", participants |-> CenterParticipants(participants, center)]

\* views.participant_map: [status, participants]
participant_map(u) ==
    LET center == get_user_center(u) IN
    IF is_national_officer(u) /\ ~IsSuperuser(u)
    THEN [status |-> "redirect_national", participants |-> {}]
    ELSE IF center = NULL
    THEN IF IsSuperuser(u) THEN [status |-> "redirect_admin", participants |-> {}]
         ELSE [status |-> "forbidden", participants |-> {}]
    ELSE [status |-> "ok", participants |-> CenterParticipants(participants, center)]

\* request GET /participants/
ParticipantList(u) ==
    /\ resp' = Response("participant_list", u, participant_list(u).status)
    /\ UNCHANGED <<centers, participants, nextPk, profile, auditLog, session>>

\* request GET /participants/map/
ParticipantMap(u) ==
    /\ resp' = Response("participant_map", u, participant_map(u).status)
    /\ UNCHANGED <<centers, participants, nextPk, profile, auditLog, session>>

\* mutant: participant_add answers forbidden to every caller it turns away
AddGateForbidding(u) ==
    IF is_national_officer(u) /\ ~IsSuperuser(u) THEN "forbidden"
    ELSE IF get_user_center(u) = NULL THEN "forbidden"
    ELSE ""

\* the gate of participant_add: "" when the caller may go on
AddGate(u) ==
    IF is_national_officer(u) /\ ~IsSuperuser(u) THEN "redirect_national"
    ELSE IF get_user_center(u) = NULL
         THEN IF IsSuperuser(u) THEN "redirect_admin" ELSE "forbidden"
    ELSE ""

\* views.participant_add
ParticipantAdd(u, method, data, writeOk) ==
    LET center == get_user_center(u)
        pid == data.pid
        lat == data.lat
        ins == ParticipantInsert(participants, nextPk, center, pid, lat)
    IN
    IF AddGate(u) # ""
    THEN /\ resp' = Response("participant_add", u, AddGate(u))
         /\ UNCHANGED <<centers, participants, nextPk, profile, auditLog, session>>
    ELSE IF method # "POST"
    THEN /\ resp' = Response("participant_add", u, "form")
         /\ UNCHANGED <<centers, participants, nextPk, profile, auditLog, session>>
    ELSE IF ~FullCleanOk(participants, pid, lat, NoPk)
    THEN /\ resp' = [Response("participant_add", u, "form_errors") EXCEPT !.pid = pid]
         /\ UNCHANGED <<centers, participants, nextPk, profile, auditLog, session>>
    ELSE IF ins.raised
    THEN /\ resp' = Response("participant_add", u, "server_error")
         /\ UNCHANGED <<centers, participants, nextPk, profile, auditLog, session>>
    ELSE /\ participants' = ins.participants
         /\ nextPk' = nextPk + 1
         /\ auditLog' = log_action(auditLog, writeOk, u, "CREATE", center, pid,
                                   Details("Created participant", 0, 0, {}))
         /\ resp' = [Response("participant_add", u, "saved")
                        EXCEPT !.pk = nextPk, !.pid = pid]
         /\ UNCHANGED <<centers, profile, session>>

\* the gate of participant_edit and participant_delete
StaffGate(u) ==
    IF IsSuperuser(u) THEN "redirect_admin"
    ELSE IF is_national_officer(u) THEN "redirect_national"
    ELSE IF get_user_center(u) = NULL THEN "forbidden"
    ELSE ""

\* mutant: the lookup is by pk alone
GetParticipantAnyCenter(ps, pk, center) == {p \in ps : p.pk = pk}

\* get_object_or_404(Participant, pk=pk, project_center=center)
GetParticipant(ps, pk, center) ==
    {p \in ps : p.pk = pk /\ p.project_center = center}

\* obj.save() of an existing instance: UPDATE of the row with its pk
ParticipantUpdate(ps, pk, center, pid, lat) ==
    {p \in ps : p.pk # pk} \cup {NewParticipant(pk, center, pid, lat)}

\* views.participant_edit
ParticipantEdit(u, pk, method, data, writeOk) ==
    LET center == get_user_center(u)
        pid == data.pid
        lat == data.lat
        found == GetParticipant(participants, pk, center)
    IN
    IF StaffGate(u) # ""
    THEN /\ resp' = [Response("participant_edit", u, StaffGate(u)) EXCEPT !.pk = pk]
         /\ UNCHANGED <<centers, participants, nextPk, profile, auditLog, session>>
    ELSE IF found = {}
    THEN /\ resp' = [Response("participant_edit", u, "not_found") EXCEPT !.pk = pk]
         /\ UNCHANGED <<centers, participants, nextPk, profile, auditLog, session>>
    ELSE IF method # "POST"
    THEN /\ resp' = [Response("participant_edit", u, "form") EXCEPT !.pk = pk]
         /\ UNCHANGED <<centers, participants, nextPk, profile, auditLog, session>>
    ELSE IF ~FullCleanOk(participants, pid, lat, pk)
    THEN /\ resp' = [Response("participant_edit", u, "form_errors")
                        EXCEPT !.pk = pk, !.pid = pid]
         /\ UNCHANGED <<centers, participants, nextPk, profile, auditLog, session>>
    ELSE /\ participants' = ParticipantUpdate(participants, pk, center, pid, lat)
         /\ auditLog' = log_action(auditLog, writeOk, u, "UPDATE", center, pid,
                                   Details("Updated participant", 0, 0, {}))
         /\ resp' = [Response("participant_edit", u, "saved")
                        EXCEPT !.pk = pk, !.pid = pid]
         /\ UNCHANGED <<centers, nextPk, profile, session>>

\* views.participant_delete
ParticipantDelete(u, pk, method, writeOk) ==
    LET center == get_user_center(u)
        found == GetParticipant(participants, pk, center)
    IN
    IF StaffGate(u) # ""
    THEN /\ resp' = [Response("participant_delete", u, StaffGate(u)) EXCEPT !.pk = pk]
         /\ UNCHANGED <<centers, participants, nextPk, profile, auditLog, session>>
    ELSE IF found = {}
    THEN /\ resp' = [Response("participant_delete", u, "not_found") EXCEPT !.pk = pk]
         /\ UNCHANGED <<centers, participants, nextPk, profile, auditLog, session>>
    ELSE IF method # "POST"
    THEN /\ resp' = [Response("participant_delete", u, "confirm") EXCEPT !.pk = pk]
         /\ UNCHANGED <<centers, participants, nextPk, profile, auditLog, session>>
    ELSE /\ auditLog' = log_action(auditLog, writeOk, u, "DELETE", center,
                                   (CHOOSE p \in found : TRUE).participant_id,
                                   Details("Deleted participant", 0, 0, {}))
         /\ participants' = participants \ found
         /\ resp' = [Response("participant_delete", u, "deleted") EXCEPT !.pk = pk]
         /\ UNCHANGED <<centers, nextPk, profile, session>>

(***************************************************************************)
(* views.participant_upload: one view, three requests.                     *)
(***************************************************************************)
\* mutant: the key is left in the session
SessionKept(sess, u) == sess

\* request.session.pop(SESSION_KEY, None)
SessionPop(sess, u) == [sess EXCEPT ![u] = NoSession]

\* request.session[SESSION_KEY] = rows
SessionPut(sess, u, rows) == [sess EXCEPT ![u] = [present |-> TRUE, rows |-> rows]]

\* mutant: "if rows is None"
NoPreviewKeyOnly(sess, u) == ~sess[u].present

\* "if not rows": the key is missing or holds an empty list
NoPreview(sess, u) == ~sess[u].present \/ sess[u].rows = <<>>

\* GET of the upload page
UploadPage(u) ==
    IF ~is_national_or_superuser(u)
    THEN /\ resp' = Response("upload_get", u, "forbidden")
         /\ UNCHANGED <<centers, participants, nextPk, profile, auditLog, session>>
    ELSE /\ session' = SessionPop(session, u)
         /\ resp' = Response("upload_get", u, "ok")
         /\ UNCHANGED <<centers, participants, nextPk, profile, auditLog>>

\* POST of a file (file = NoFile: the form does not validate)
UploadFile(u, file) ==
    LET parsed == parse_csv(file, centers, participants) IN
    IF ~is_national_or_superuser(u)
    THEN /\ resp' = Response("upload_post", u, "forbidden")
         /\ UNCHANGED <<centers, participants, nextPk, profile, auditLog, session>>
    ELSE IF file = NoFile
    THEN /\ session' = SessionPop(session, u)
         /\ resp' = Response("upload_post", u, "ok")
         /\ UNCHANGED <<centers, participants, nextPk, profile, auditLog>>
    ELSE IF parsed.raised
    THEN /\ resp' = Response("upload_post", u, "parse_error")
         /\ UNCHANGED <<centers, participants, nextPk, profile, auditLog, session>>
    ELSE /\ session' = SessionPut(session, u, parsed.rows)
         /\ resp' = [Response("upload_post", u, "preview")
                        EXCEPT !.total = Len(parsed.rows),
                               !.valid = PreviewValid(parsed.rows)]
         /\ UNCHANGED <<centers, participants, nextPk, profile, auditLog>>

\* POST with confirm_import=1
ConfirmImport(u, writeOk) ==
    LET rows == session[u].rows
        done == CommitLoop(rows, centers, CommitStart(participants, nextPk))
    IN
    IF ~is_national_or_superuser(u)
    THEN /\ resp' = Response("confirm_import", u, "forbidden")
         /\ UNCHANGED <<centers, participants, nextPk, profile, auditLog, session>>
    ELSE IF NoPreview(session, u)
    THEN /\ resp' = Response("confirm_import", u, "no_preview")
         /\ UNCHANGED <<centers, participants, nextPk, profile, auditLog, session>>
    ELSE /\ participants' = done.participants
         /\ nextPk' = done.nextPk
         /\ auditLog' = log_action(auditLog, writeOk, u, "CSV_IMPORT", NULL, NULL,
                                   ImportDetails(done))
         /\ session' = SessionPop(session, u)
         /\ resp' = [Response("confirm_import", u, "imported")
                        EXCEPT !.created = done.created,
                               !.skipped = done.skipped,
                               !.errors = done.errors]
         /\ UNCHANGED <<centers, profile>>

(***************************************************************************)
(* Admin surface (admin.py): ProjectCenter rows are added and deleted by   *)
(* the superuser; AuditLog rows are view-only.                             *)
(***************************************************************************)
\* on_delete=SET_NULL of AuditLog.project_center
SetNullCenter(log, c) ==
    {IF r.project_center = c THEN [r EXCEPT !.project_center = NULL] ELSE r : r \in log}

\* mutant: the center row is deleted alone (no on_delete=CASCADE)
AdminDeleteCenterNoCascade(u, c) ==
    /\ IsSuperuser(u)
    /\ c \in centers
    /\ centers' = centers \ {c}
    /\ auditLog' = SetNullCenter(auditLog, c)
    /\ resp' = Response("admin_center_delete", u, "deleted")
    /\ UNCHANGED <<participants, profile, nextPk, session>>

\* delete of a ProjectCenter row: Participant and UserProfile CASCADE,
\* AuditLog.project_center SET_NULL
AdminDeleteCenter(u, c) ==
    /\ IsSuperuser(u)
    /\ c \in centers
    /\ centers' = centers \ {c}
    /\ participants' = {p \in participants : p.project_center # c}
    /\ profile' = [x \in Users |-> IF profile[x] = c THEN NULL ELSE profile[x]]
    /\ auditLog' = SetNullCenter(auditLog, c)
    /\ resp' = Response("admin_center_delete", u, "deleted")
    /\ UNCHANGED <<nextPk, session>>

\* add of a ProjectCenter row (center_code unique)
AdminAddCenter(u, c) ==
    /\ IsSuperuser(u)
    /\ c \in Codes \ centers
    /\ centers' = centers \cup {c}
    /\ resp' = Response("admin_center_add", u, "saved")
    /\ UNCHANGED <<participants, nextPk, profile, auditLog, session>>

\* AuditLog.objects.create of ParticipantAdmin: no try/except around it, so
\* a write the database refuses (writeOk = FALSE) raises out of the admin view
AdminCreateLog(log, writeOk, user, action, center, pid, details) ==
    IF writeOk
    THEN AuditLogSave(log, NewAuditLog(user, action, center, pid, details))
    ELSE [raised |-> TRUE, log |-> log]

\* ParticipantAdmin.save_model (pk = NoPk: the add form; otherwise the change
\* form of row pk).  The admin serves the request inside transaction.atomic:
\* when AuditLog.objects.create raises, the save made before it is rolled
\* back and the response is the server error.
AdminSaveParticipant(u, pk, c, data, writeOk) ==
    LET change == pk # NoPk
        pid == data.pid
        lat == data.lat
        log == AdminCreateLog(auditLog, writeOk, u,
                              IF change THEN "UPDATE" ELSE "CREATE", c, pid,
                              Details(IF change THEN "Updated via Admin"
                                      ELSE "Created via Admin", 0, 0, {}))
    IN
    /\ IsSuperuser(u)
    /\ change => \E p \in participants : p.pk = pk
    /\ IF c \notin centers \/ ~FullCleanOk(participants, pid, lat, pk)
       THEN /\ resp' = [Response("admin_participant_save", u, "form_errors")
                           EXCEPT !.pk = pk, !.pid = pid]
            /\ UNCHANGED <<centers, participants, nextPk, profile, auditLog, session>>
       ELSE IF log.raised
       THEN /\ resp' = [Response("admin_participant_save", u, "server_error")
                           EXCEPT !.pk = pk, !.pid = pid]
            /\ UNCHANGED <<centers, participants, nextPk, profile, auditLog, session>>
       ELSE /\ participants' = IF change
                               THEN ParticipantUpdate(participants, pk, c, pid, lat)
                               ELSE participants \cup
                                       {NewParticipant(nextPk, c, pid, lat)}
            /\ nextPk' = IF change THEN nextPk ELSE nextPk + 1
            /\ auditLog' = log.log
            /\ resp' = [Response("admin_participant_save", u, "saved")
                           EXCEPT !.pk = IF change THEN pk ELSE nextPk, !.pid = pid]
            /\ UNCHANGED <<centers, profile, session>>

\* ParticipantAdmin.delete_model: the entry is written first, then the row
\* is deleted
AdminDeleteParticipant(u, pk, writeOk) ==
    /\ IsSuperuser(u)
    /\ \E p \in participants :
          /\ p.pk = pk
          /\ LET log == AdminCreateLog(auditLog, writeOk, u, "DELETE",
                                       p.project_center, p.participant_id,
                                       Details("Deleted via Admin", 0, 0, {}))
             IN
             IF log.raised
             THEN /\ resp' = [Response("admin_participant_delete", u, "server_error")
                                 EXCEPT !.pk = pk]
                  /\ UNCHANGED <<centers, participants, nextPk, profile, auditLog,
                                 session>>
             ELSE /\ auditLog' = log.log
                  /\ participants' = participants \ {p}
                  /\ resp' = [Response("admin_participant_delete", u, "deleted")
                                 EXCEPT !.pk = pk]
                  /\ UNCHANGED <<centers, nextPk, profile, session>>

\* AuditLogAdmin.has_add_permission / has_change_permission /
\* has_delete_permission: all False, the admin refuses the request
AuditLogAdminPermission(kind) == FALSE

AdminAuditLog(u, kind, pk) ==
    /\ IsSuperuser(u)
    /\ pk \in {r.pk : r \in auditLog}
    /\ IF AuditLogAdminPermission(kind)
       THEN /\ auditLog' = IF kind = "delete"
                           THEN {r \in auditLog : r.pk # pk}
                           ELSE {IF r.pk = pk THEN [r EXCEPT !.action = "UPDATE"] ELSE r
                                 : r \in auditLog}
            /\ resp' = [Response("admin_auditlog", u, "done") EXCEPT !.pk = pk]
       ELSE /\ auditLog' = auditLog
            /\ resp' = [Response("admin_auditlog", u, "forbidden") EXCEPT !.pk = pk]
    /\ UNCHANGED <<centers, participants, nextPk, profile, session>>

(***************************************************************************)
(* Calls of AuditLog.save / AuditLog.delete on an instance loaded from the *)
(* table (row with that pk) whose action field was changed in memory.      *)
(***************************************************************************)
AuditLogActions == {"CREATE", "UPDATE", "DELETE", "CSV_IMPORT"}

SaveStoredAuditLog(pk, action) ==
    /\ \E r \in auditLog :
          /\ r.pk = pk
          /\ LET out == AuditLogSave(auditLog, [r EXCEPT !.action = action]) IN
             /\ auditLog' = out.log
             /\ resp' = [Response("auditlog_save", NULL,
                                   IF out.raised THEN "ValidationError" ELSE "saved")
                            EXCEPT !.pk = pk]
    /\ UNCHANGED <<centers, participants, nextPk, profile, session>>

DeleteStoredAuditLog(pk) ==
    /\ \E r \in auditLog :
          /\ r.pk = pk
          /\ LET out == AuditLogDelete(auditLog, r) IN
             /\ auditLog' = out.log
             /\ resp' = [Response("auditlog_delete", NULL,
                                   IF out.raised THEN "ValidationError" ELSE "deleted")
                            EXCEPT !.pk = pk]
    /\ UNCHANGED <<centers, participants, nextPk, profile, session>>

(***************************************************************************)
(* National Office views: @user_passes_test(is_national_or_superuser)      *)
(* sends a caller who fails the test to the login page; the CSV template   *)
(* view answers forbidden.                                                 *)
(***************************************************************************)
\* user_passes_test(is_national_or_superuser)
user_passes_test(u) == IF is_national_or_superuser(u) THEN "ok" ELSE "redirect_login"

\* views.national_dashboard
NationalDashboard(u) ==
    /\ resp' = Response("national_dashboard", u, user_passes_test(u))
    /\ UNCHANGED <<centers, participants, nextPk, profile, auditLog, session>>

\* views.national_centers_map
NationalCentersMap(u) ==
    /\ resp' = Response("national_centers_map", u, user_passes_test(u))
    /\ UNCHANGED <<centers, participants, nextPk, profile, auditLog, session>>

\* views.participants_csv_template
ParticipantsCsvTemplate(u) ==
    /\ resp' = Response("participants_csv_template", u,
                        IF is_national_or_superuser(u) THEN "ok" ELSE "forbidden")
    /\ UNCHANGED <<centers, participants, nextPk, profile, auditLog, session>>

(***************************************************************************)
(* The specification.                                                      *)
(***************************************************************************)
\* the pk values requests name: every pk given so far and one never given
Pks == 1..nextPk
LogPks == {r.pk : r \in auditLog}

\* every request spends one unit of the request budget and is served whole:
\* no commit is left in progress
Budget ==
    /\ requests < MaxRequests
    /\ requests' = requests + 1
    /\ UNCHANGED commit

\* the requests, with an audit table that accepts every write
Next ==
    \/ \E u \in Users : Budget /\ ParticipantList(u)
    \/ \E u \in Users : Budget /\ ParticipantMap(u)
    \/ \E u \in Users : Budget /\ ParticipantAdd(u, "GET", NoData, TRUE)
    \/ \E u \in Users, d \in FormData : Budget /\ ParticipantAdd(u, "POST", d, TRUE)
    \/ \E u \in Users, pk \in Pks :
          Budget /\ ParticipantEdit(u, pk, "GET", NoData, TRUE)
    \/ \E u \in Users, pk \in Pks, d \in FormData :
          Budget /\ ParticipantEdit(u, pk, "POST", d, TRUE)
    \/ \E u \in Users, pk \in Pks : Budget /\ ParticipantDelete(u, pk, "GET", TRUE)
    \/ \E u \in Users, pk \in Pks : Budget /\ ParticipantDelete(u, pk, "POST", TRUE)
    \/ \E u \in UploadCallers : Budget /\ UploadPage(u)
    \/ \E u \in UploadCallers, f \in Files \cup {NoFile} : Budget /\ UploadFile(u, f)
    \/ \E u \in UploadCallers : Budget /\ ConfirmImport(u, TRUE)
    \/ \E u \in Users, c \in Codes : Budget /\ AdminDeleteCenter(u, c)
    \/ \E u \in Users, c \in Codes : Budget /\ AdminAddCenter(u, c)
    \/ \E u \in Users, k \in {"add", "change", "delete"}, pk \in LogPks :
          Budget /\ AdminAuditLog(u, k, pk)
    \/ \E pk \in LogPks, a \in AuditLogActions : Budget /\ SaveStoredAuditLog(pk, a)
    \/ \E pk \in LogPks : Budget /\ DeleteStoredAuditLog(pk)
    \/ \E u \in Users : Budget /\ NationalDashboard(u)
    \/ \E u \in Users : Budget /\ NationalCentersMap(u)
    \/ \E u \in Users : Budget /\ ParticipantsCsvTemplate(u)

Spec == Init /\ [][Next]_vars

(***************************************************************************)
(* The handlers that write audit entries, with an audit table that may     *)
(* refuse a write (writeOk = FALSE), and the participant admin.            *)
(***************************************************************************)
FaultBudget ==
    /\ requests < MaxFaultRequests
    /\ requests' = requests + 1
    /\ UNCHANGED commit

NextAuditFault ==
    \/ \E u \in Users, d \in FormData, w \in BOOLEAN :
          FaultBudget /\ ParticipantAdd(u, "POST", d, w)
    \/ \E u \in Users, pk \in Pks, d \in FormData, w \in BOOLEAN :
          FaultBudget /\ ParticipantEdit(u, pk, "POST", d, w)
    \/ \E u \in Users, pk \in Pks, w \in BOOLEAN :
          FaultBudget /\ ParticipantDelete(u, pk, "POST", w)
    \/ \E u \in UploadCallers, f \in Files : FaultBudget /\ UploadFile(u, f)
    \/ \E u \in UploadCallers, w \in BOOLEAN : FaultBudget /\ ConfirmImport(u, w)
    \/ \E u \in Users, pk \in Pks \cup {NoPk}, c \in Codes, d \in FormData,
          w \in BOOLEAN :
          FaultBudget /\ AdminSaveParticipant(u, pk, c, d, w)
    \/ \E u \in Users, pk \in Pks, w \in BOOLEAN :
          FaultBudget /\ AdminDeleteParticipant(u, pk, w)

SpecAuditFault == Init /\ [][NextAuditFault]_vars

(***************************************************************************)
(* Two confirm-import requests of two sessions served at the same time     *)
(* (two workers, autocommit database).  A commit is followed statement by  *)
(* statement: each database query of the loop body is one step, and the    *)
(* steps of the two commits interleave in any order.                       *)
(* commit[u] = [pc, rows, i, created, skipped, errors, created_centers]:   *)
(* i is the row the loop is at; pc is "row" before the row's lookups,      *)
(* "clean" before p.full_clean(), "save" before p.save().                  *)
(***************************************************************************)
ConcurrentFiles ==
    { [header |-> "ok", rows |-> <<RawRow("c1", "p1", 45), RawRow("c1", "p4", 45)>>],
      [header |-> "ok", rows |-> <<RawRow("c2", "p1", 45), RawRow("c2", "p5", 45)>>],
      [header |-> "ok", rows |-> <<RawRow("c2", "p5", 45), RawRow("c1", "p1", 45)>>],
      [header |-> "ok", rows |-> <<RawRow("c1", "p2", 45), RawRow("c2", "p4", 45)>>] }

\* both sessions hold the preview of a file, made against the same database
InitConcurrent ==
    /\ centers = {"c1", "c2"}
    /\ participants = {NewParticipant(1, "c1", "p2", 45),
                       NewParticipant(2, "c2", "p3", 45)}
    /\ nextPk = 3
    /\ profile = [u \in Users |-> IF u = "staff1" THEN "c1"
                                  ELSE IF u = "natstaff" THEN "c2" ELSE NULL]
    /\ auditLog = {}
    /\ \E fa \in ConcurrentFiles, fb \in ConcurrentFiles :
          session = [u \in Users |->
                       IF u = "natstaff"
                       THEN [present |-> TRUE,
                             rows |-> parse_csv(fa, centers, participants).rows]
                       ELSE IF u = "root"
                       THEN [present |-> TRUE,
                             rows |-> parse_csv(fb, centers, participants).rows]
                       ELSE NoSession]
    /\ resp = Response("none", NULL, "none")
    /\ requests = 0
    /\ commit = [u \in Committers |-> IdleCommit]

\* the row the loop of u is at
CurrentRow(u) == commit[u].rows[commit[u].i]

\* the loop goes on with the next row
NextRow(acc) == [acc EXCEPT !.i = @ + 1, !.pc = "row"]

\* confirm_import up to the loop: the guard, rows read from the session,
\* the counters set to zero
CommitBegin(u) ==
    /\ commit[u].pc = "idle"
    /\ is_national_or_superuser(u)
    /\ ~NoPreview(session, u)
    /\ commit' = [commit EXCEPT ![u] =
                     [pc |-> "row", rows |-> session[u].rows, i |-> 1,
                      created |-> 0, skipped |-> 0, errors |-> {},
                      created_centers |-> {}]]
    /\ UNCHANGED <<centers, participants, nextPk, profile, auditLog, session,
                   resp, requests>>

\* the head of the loop body: the is_valid flag, ProjectCenter.objects.get
\* and Participant.objects.filter(...).exists()
RowCheck(u) ==
    /\ commit[u].pc = "row"
    /\ commit[u].i <= Len(commit[u].rows)
    /\ LET r == CurrentRow(u) IN
       commit' = [commit EXCEPT ![u] =
                    IF ~r.is_valid THEN NextRow(Skip(@))
                    ELSE IF r.center_code \notin centers
                         THEN NextRow(SkipError(r, @))
                    ELSE IF r.participant_id \in StoredIds(participants)
                         THEN NextRow(Skip(@))
                    ELSE [@ EXCEPT !.pc = "clean"]]
    /\ UNCHANGED <<centers, participants, nextPk, profile, auditLog, session,
                   resp, requests>>

\* p.full_clean(): the field validators and the uniqueness query
RowClean(u) ==
    /\ commit[u].pc = "clean"
    /\ LET r == CurrentRow(u) IN
       commit' = [commit EXCEPT ![u] =
                    IF ~FullCleanOk(participants, r.participant_id,
                                    r.house_latitude, NoPk)
                    THEN NextRow(SkipError(r, @))
                    ELSE [@ EXCEPT !.pc = "save"]]
    /\ UNCHANGED <<centers, participants, nextPk, profile, auditLog, session,
                   resp, requests>>

\* p.save(): the INSERT; the IntegrityError of the unique constraint is
\* caught by "except Exception"
RowSave(u) ==
    /\ commit[u].pc = "save"
    /\ LET r == CurrentRow(u)
           ins == ParticipantInsert(participants, nextPk, r.center_code,
                                    r.participant_id, r.house_latitude)
       IN
       IF ins.raised
       THEN /\ commit' = [commit EXCEPT ![u] = NextRow(SkipError(r, @))]
            /\ UNCHANGED <<participants, nextPk>>
       ELSE /\ participants' = ins.participants
            /\ nextPk' = nextPk + 1
            /\ commit' = [commit EXCEPT ![u] =
                             NextRow([@ EXCEPT !.created = @ + 1,
                                               !.created_centers =
                                                   @ \cup {r.center_code}])]
    /\ UNCHANGED <<centers, profile, auditLog, session, resp, requests>>

\* after the loop: the CSV_IMPORT entry, the pop of the preview, the response
CommitEnd(u) ==
    /\ commit[u].pc = "row"
    /\ commit[u].i > Len(commit[u].rows)
    /\ auditLog' = log_action(auditLog, TRUE, u, "CSV_IMPORT", NULL, NULL,
                              ImportDetails(commit[u]))
    /\ session' = SessionPop(session, u)
    /\ resp' = [Response("confirm_import", u, "imported")
                   EXCEPT !.created = commit[u].created,
                          !.skipped = commit[u].skipped,
                          !.errors = commit[u].errors]
    /\ commit' = [commit EXCEPT ![u].pc = "done"]
    /\ requests' = requests + 1
    /\ UNCHANGED <<centers, participants, nextPk, profile>>

NextConcurrent ==
    \/ \E u \in Committers : CommitBegin(u)
    \/ \E u \in Committers : RowCheck(u)
    \/ \E u \in Committers : RowClean(u)
    \/ \E u \in Committers : RowSave(u)
    \/ \E u \in Committers : CommitEnd(u)

SpecConcurrent == InitConcurrent /\ [][NextConcurrent]_vars

(***************************************************************************)
(* Properties.                                                             *)
(***************************************************************************)
UniqueIds(ps) ==
    \A p \in ps, q \in ps : p.participant_id = q.participant_id => p = q

\* the rows a step inserts: those whose pk was not stored before the step
NewRows == {p \in participants' : p.pk \notin {q.pk : q \in participants}}

\* the session of u holds no preview rows: no key, or an empty list
PreviewMissingOrEmpty(u) == ~session[u].present \/ Len(session[u].rows) = 0

\* the callers whose confirm-import finds a non-empty preview
Committing(u) == is_national_or_superuser(u) /\ ~PreviewMissingOrEmpty(u)

\* the step is the request op of caller u (resp is the response of the
\* last request served)
Served(op, u) == requests' = requests + 1 /\ resp'.op = op /\ resp'.user = u

\* C1: no two stored Participant rows ever share a participant_id; a
\* direct create of a stored id is refused with form errors and stores
\* nothing, and a confirm-import never creates a row whose id was stored
\* before it: each such row is counted as skipped.
C1_UniqueParticipantId ==
    /\ []UniqueIds(participants)
    /\ [][
        /\ participants' # participants =>
              \A p \in NewRows : p.participant_id \notin StoredIds(participants)
        /\ \A u \in Users :
              ( /\ Served("participant_add", u)
                /\ resp'.pid \in StoredIds(participants) )
              => /\ resp'.status = "form_errors"
                 /\ participants' = participants
        /\ \A u \in Users :
              (Served("confirm_import", u) /\ Committing(u))
              => /\ resp'.created = Cardinality(NewRows)
                 /\ resp'.skipped >=
                      Cardinality({i \in 1..Len(session[u].rows) :
                          session[u].rows[i].participant_id
                              \in StoredIds(participants)})
      ]_vars

\* a direct create of a stored id was just refused
C1_Witness ==
    /\ resp.op = "participant_add"
    /\ resp.status = "form_errors"
    /\ resp.pid \in StoredIds(participants)

\* C2: when a confirm-import that found a non-empty preview finishes,
\* created + skipped equals the number of rows of the buffer, and every
\* row of the buffer moves exactly one of the two counters by one.
RowCounted(r, cs, acc) ==
    LET out == CommitRow(r, cs, acc) IN
    \/ out.created = acc.created + 1 /\ out.skipped = acc.skipped
    \/ out.created = acc.created /\ out.skipped = acc.skipped + 1

C2_CreatedPlusSkippedIsTotal ==
    [][ \A u \in Users :
          (Served("confirm_import", u) /\ Committing(u))
          => LET rows == session[u].rows IN
             /\ resp'.status = "imported"
             /\ resp'.created + resp'.skipped = Len(rows)
             /\ \A i \in 1..Len(rows) :
                   RowCounted(rows[i], centers,
                              CommitLoop(SubSeq(rows, 1, i - 1), centers,
                                         CommitStart(participants, nextPk)))
      ]_vars

\* a commit that created some rows and skipped others
C2_Witness ==
    /\ resp.op = "confirm_import"
    /\ resp.status = "imported"
    /\ resp.created >= 1
    /\ resp.skipped >= 1

C4_ConfirmWithoutPreview ==
    [][ \A u \in Users :
          ( /\ Served("confirm_import", u)
            /\ is_national_or_superuser(u)
            /\ PreviewMissingOrEmpty(u) )
          => /\ resp'.status = "no_preview"
             /\ participants' = participants
             /\ nextPk' = nextPk
             /\ auditLog' = auditLog
      ]_vars

\* confirm-import was refused for lack of a preview after an earlier commit
C4_Witness ==
    /\ resp.op = "confirm_import"
    /\ resp.status = "no_preview"
    /\ \E e \in auditLog : e.action = "CSV_IMPORT"

\* C5 (as claimed): a stored AuditLog row is never changed and never
\* removed by any later operation, the deletion of the center or user it
\* references included.
C5_AuditRowsNeverChange ==
    [][ \A r \in auditLog : r \in auditLog' ]_vars

\* C6: save() of an AuditLog instance that is already stored and delete()
\* of any AuditLog instance raise and leave the table as it was; save() of
\* an instance not yet stored inserts it, and saving that instance again
\* raises.  The admin refuses add, change and delete of audit rows.
UnsavedEntry ==
    NewAuditLog("staff1", "CREATE", "c1", "p1", Details("Created participant", 0, 0, {}))

C6_AuditLogImmutable ==
    /\ \A r \in auditLog, a \in AuditLogActions :
          LET out == AuditLogSave(auditLog, [r EXCEPT !.action = a]) IN
          out.raised /\ out.log = auditLog
    /\ \A r \in auditLog \cup {UnsavedEntry} :
          LET out == AuditLogDelete(auditLog, r) IN
          out.raised /\ out.log = auditLog
    /\ LET first == AuditLogSave(auditLog, UnsavedEntry) IN
          /\ ~first.raised
          /\ auditLog \subseteq first.log
          /\ Cardinality(first.log \ auditLog) = 1
          /\ \A e \in first.log \ auditLog :
                /\ e.pk # NoPk
                /\ LET again == AuditLogSave(first.log, e) IN
                   again.raised /\ again.log = first.log
    /\ resp.op \in {"auditlog_save", "auditlog_delete"}
          => resp.status = "ValidationError"
    /\ resp.op = "admin_auditlog" => resp.status = "forbidden"

\* save() of a stored audit row was just attempted and raised
C6_Witness ==
    /\ resp.op = "auditlog_save"
    /\ resp.status = "ValidationError"
    /\ \E r \in auditLog : r.pk = resp.pk

\* C7: the views of a staff user scoped to center C and a participant P of
\* another center.
OtherCenterRows(ps, c) == {p \in ps : p.project_center # c}

CrossCenter(u, pk) ==
    /\ profile[u] # NULL
    /\ \E p \in participants : p.pk = pk /\ p.project_center # profile[u]

StaffOp(u) == Served("participant_edit", u) \/ Served("participant_delete", u)

ListsOwnCenterOnly ==
    \A u \in Users :
       profile[u] # NULL =>
          /\ participant_list(u).participants
                \subseteq CenterParticipants(participants, profile[u])
          /\ participant_map(u).participants
                \subseteq CenterParticipants(participants, profile[u])

EditedStaysInCenter ==
    \A u \in Users :
       (Served("participant_edit", u) /\ resp'.status = "saved")
       => /\ \E p \in participants :
                p.pk = resp'.pk /\ p.project_center = profile[u]
          /\ \E p \in participants' :
                p.pk = resp'.pk /\ p.project_center = profile[u]

\* C7 (as claimed): participant_edit and participant_delete on P answer
\* not-found for every staff user scoped to another center.
C7_CrossCenterIsNotFound ==
    /\ []ListsOwnCenterOnly
    /\ [][
        /\ EditedStaysInCenter
        /\ \A u \in Users :
              (StaffOp(u) /\ CrossCenter(u, resp'.pk))
              => /\ resp'.status = "not_found"
                 /\ participants' = participants
      ]_vars

\* C7 (amended): participant_list and participant_map of a staff user
\* scoped to C return rows of C only; participant_edit and
\* participant_delete on a participant of another center change no row and
\* answer not-found, or, when the staff user is also superuser or National
\* Office member, the redirect those roles get; no edit or delete by a
\* staff user touches a row of another center, and an edited row stays in C.
C7_StaffScopedToCenter ==
    /\ []ListsOwnCenterOnly
    /\ [][
        /\ EditedStaysInCenter
        /\ \A u \in Users :
              (StaffOp(u) /\ CrossCenter(u, resp'.pk))
              => /\ resp'.status = (IF IsSuperuser(u) THEN "redirect_admin"
                                    ELSE IF is_national_officer(u)
                                         THEN "redirect_national"
                                    ELSE "not_found")
                 /\ participants' = participants
        /\ \A u \in Users :
              (StaffOp(u) /\ profile[u] # NULL)
              => OtherCenterRows(participants', profile[u])
                    = OtherCenterRows(participants, profile[u])
      ]_vars

\* staff of c1 asked to edit a participant of c2 and got not-found
C7_Witness ==
    /\ resp.op = "participant_edit"
    /\ resp.status = "not_found"
    /\ profile[resp.user] = "c1"
    /\ \E p \in participants : p.pk = resp.pk /\ p.project_center = "c2"

\* C8: the 3-row example: row 1 valid, row 2 with a stored participant id,
\* row 3 with a center code of no center.  The preview reports total 3,
\* valid 1 (invalid 2); confirming it creates exactly one participant (row
\* 1) and appends one CSV_IMPORT entry with Created=1, Skipped=2.
ExampleFile ==
    [header |-> "ok", rows |-> <<RawRow("c1", "p1", 45), RawRow("c1", "p2", 45),
                                 RawRow("zz", "p3", 45)>>]

\* the database the example supposes
ExampleDatabase ==
    /\ "c1" \in centers
    /\ "zz" \notin centers
    /\ "p1" \notin StoredIds(participants)
    /\ "p2" \in StoredIds(participants)

\* the last request was u's upload of the example file on that database
ExamplePreviewed(u) ==
    /\ resp.op = "upload_post" /\ resp.user = u /\ resp.status = "preview"
    /\ session[u] = [present |-> TRUE,
                     rows |-> parse_csv(ExampleFile, centers, participants).rows]
    /\ ExampleDatabase

C8_ExampleImport ==
    [][ /\ \A u \in Users :
              ( /\ Served("upload_post", u)
                /\ UploadFile(u, ExampleFile)
                /\ is_national_or_superuser(u)
                /\ ExampleDatabase )
              => /\ resp'.status = "preview"
                 /\ resp'.total = 3
                 /\ resp'.valid = 1
                 /\ resp'.total - resp'.valid = 2
                 /\ session'[u].rows[1].is_valid
                 /\ ~session'[u].rows[2].is_valid
                 /\ ~session'[u].rows[3].is_valid
        /\ \A u \in Users :
              (Served("confirm_import", u) /\ ExamplePreviewed(u))
              => /\ participants \subseteq participants'
                 /\ Cardinality(NewRows) = 1
                 /\ \A p \in NewRows :
                       p.participant_id = "p1" /\ p.project_center = "c1"
                 /\ auditLog \subseteq auditLog'
                 /\ Cardinality(auditLog' \ auditLog) = 1
                 /\ \A e \in auditLog' \ auditLog :
                       /\ e.action = "CSV_IMPORT"
                       /\ e.details.created = 1
                       /\ e.details.skipped = 2
      ]_vars

\* the example was uploaded and confirmed
C8_Witness ==
    /\ resp.op = "confirm_import"
    /\ resp.created = 1
    /\ resp.skipped = 2
    /\ \E p \in participants : p.participant_id = "p1" /\ p.project_center = "c1"
    /\ "p2" \in StoredIds(participants)
    /\ \E e \in auditLog :
          e.action = "CSV_IMPORT" /\ e.details.created = 1 /\ e.details.skipped = 2

\* C9: the preview buffer of the session is gone after every commit and
\* after every GET of the upload page, only an upload of that session brings
\* one back, and a confirm-import that follows a commit or a GET of the same
\* session finds no preview and creates nothing.
C9_PreviewCommittedOnce ==
    [][ \A u \in Users :
          /\ (Served("confirm_import", u) /\ resp'.status = "imported")
                => session'[u] = NoSession
          /\ (Served("upload_get", u) /\ resp'.status = "ok")
                => session'[u] = NoSession
          /\ (session[u] = NoSession /\ session'[u] # NoSession)
                => Served("upload_post", u)
          /\ ( /\ Served("confirm_import", u)
               /\ resp.user = u
               /\ \/ resp.op = "confirm_import" /\ resp.status = "imported"
                  \/ resp.op = "upload_get" /\ resp.status = "ok" )
                => /\ resp'.status = "no_preview"
                   /\ participants' = participants
      ]_vars

\* a second confirm-import right after a commit that created rows
C9_Witness ==
    /\ resp.op = "confirm_import"
    /\ resp.status = "no_preview"
    /\ session[resp.user] = NoSession
    /\ \E e \in auditLog :
          e.action = "CSV_IMPORT" /\ e.user = resp.user /\ e.details.created >= 1

\* C10: at commit a row marked valid at preview whose center is gone or
\* whose participant id is now stored creates no participant and is counted
\* as skipped; the other rows are still processed: each row that is valid,
\* not stale and not preceded by such a row with the same id is created.
Stale(r) ==
    /\ r.is_valid
    /\ \/ r.center_code \notin centers
       \/ r.participant_id \in StoredIds(participants)

Passing(r) == r.is_valid /\ ~Stale(r)

MadeFrom(p, r) ==
    /\ p.participant_id = r.participant_id
    /\ p.project_center = r.center_code

C10_CommitRevalidates ==
    [][ \A u \in Users :
          (Served("confirm_import", u) /\ Committing(u))
          => LET rows == session[u].rows IN
             /\ participants \subseteq participants'
             /\ \A p \in NewRows :
                   \E i \in 1..Len(rows) : Passing(rows[i]) /\ MadeFrom(p, rows[i])
             /\ resp'.skipped >=
                   Cardinality({i \in 1..Len(rows) : ~Passing(rows[i])})
             /\ \A i \in 1..Len(rows) :
                   ( /\ Passing(rows[i])
                     /\ \A j \in 1..(i - 1) :
                           Passing(rows[j]) =>
                              rows[j].participant_id # rows[i].participant_id )
                   => \E p \in NewRows : MadeFrom(p, rows[i])
      ]_vars

\* a commit in which a row raised (its center was gone) and another row
\* was created
C10_Witness ==
    /\ resp.op = "confirm_import"
    /\ resp.status = "imported"
    /\ resp.errors # {}
    /\ resp.created >= 1

\* C11: a confirm-import creates participants from rows marked valid at
\* preview only: a row flagged invalid at preview moves skipped by one and
\* leaves the table as it is, whatever the database holds at commit (its
\* center added, the conflicting id deleted), so the rows created are no
\* more than the rows marked valid and each comes from one of them.
FlaggedRowSkipped(r, cs, acc) == CommitRow(r, cs, acc) = Skip(acc)

C11_OnlyPreviewValidRowsCommit ==
    [][ \A u \in Users :
          (Served("confirm_import", u) /\ Committing(u))
          => LET rows == session[u].rows
                 flagged == {i \in 1..Len(rows) : ~rows[i].is_valid}
             IN
             /\ \A i \in flagged :
                   FlaggedRowSkipped(rows[i], centers,
                       CommitLoop(SubSeq(rows, 1, i - 1), centers,
                                  CommitStart(participants, nextPk)))
             /\ resp'.skipped >= Cardinality(flagged)
             /\ resp'.created <= Len(rows) - Cardinality(flagged)
             /\ \A p \in NewRows :
                   \E i \in 1..Len(rows) : rows[i].is_valid /\ MadeFrom(p, rows[i])
             /\ \A i \in flagged :
                   (\A j \in 1..Len(rows) :
                       rows[j].is_valid
                          => rows[j].participant_id # rows[i].participant_id)
                   => rows[i].participant_id \notin
                         {p.participant_id : p \in NewRows}
      ]_vars

\* the example file was previewed while p2 was stored (row 2 flagged), p2
\* was deleted before the commit, and the commit still created row 1 only:
\* p2 is not stored after it
C11_Witness ==
    /\ resp.op = "confirm_import"
    /\ resp.status = "imported"
    /\ resp.created = 1
    /\ resp.skipped = 2
    /\ "p1" \in StoredIds(participants)
    /\ "p2" \notin StoredIds(participants)
    /\ \E e \in auditLog : e.action = "DELETE" /\ e.participant_id = "p2"

\* C14: a caller with no UserProfile who is neither superuser nor member of
\* the National Office group is answered forbidden by participant_add,
\* participant_edit, participant_delete and participant_upload (page, file
\* and confirm-import), and the request changes no Participant row, no
\* AuditLog row and no preview buffer.
Unscoped(u) == profile[u] = NULL /\ ~IsSuperuser(u) /\ ~InNationalGroup(u)

MutatingOps == {"participant_add", "participant_edit", "participant_delete",
                "upload_get", "upload_post", "confirm_import"}

C14_UnscopedCallerRejected ==
    [][ \A u \in Users :
          ( /\ requests' = requests + 1
            /\ resp'.op \in MutatingOps
            /\ resp'.user = u
            /\ Unscoped(u) )
          => /\ resp'.status = "forbidden"
             /\ participants' = participants
             /\ nextPk' = nextPk
             /\ auditLog' = auditLog
             /\ session' = session
      ]_vars

\* a user whose center was deleted (the profile went with it) asked to add
\* a participant and was refused
C14_Witness ==
    /\ resp.op = "participant_add"
    /\ resp.status = "forbidden"
    /\ resp.user = "staff1"
    /\ Unscoped("staff1")

\* C15: what a caller who may not use a view is answered.
Refusals == {"forbidden", "redirect_admin", "redirect_national", "redirect_login"}

StaffViews == {"participant_list", "participant_add", "participant_map",
               "participant_edit", "participant_delete"}
UploadViews == {"upload_get", "upload_post", "confirm_import",
                "participants_csv_template"}
NationalViews == {"national_dashboard", "national_centers_map"}

\* the answer the view gives the caller instead of serving the request
\* ("" when the caller is served)
Refusal(op, u) ==
    IF op \in {"participant_edit", "participant_delete"}
    THEN IF IsSuperuser(u) THEN "redirect_admin"
         ELSE IF InNationalGroup(u) THEN "redirect_national"
         ELSE IF profile[u] = NULL THEN "forbidden"
         ELSE ""
    ELSE IF op \in {"participant_add", "participant_map"}
    THEN IF InNationalGroup(u) /\ ~IsSuperuser(u) THEN "redirect_national"
         ELSE IF profile[u] # NULL THEN ""
         ELSE IF IsSuperuser(u) THEN "redirect_admin"
         ELSE "forbidden"
    ELSE IF op = "participant_list"
    THEN IF profile[u] # NULL THEN ""
         ELSE IF IsSuperuser(u) THEN "redirect_admin"
         ELSE IF InNationalGroup(u) THEN "redirect_national"
         ELSE "forbidden"
    ELSE IF op \in UploadViews
    THEN IF IsSuperuser(u) \/ InNationalGroup(u) THEN "" ELSE "forbidden"
    ELSE IF IsSuperuser(u) \/ InNationalGroup(u) THEN "" ELSE "redirect_login"

ViewServed(u) ==
    /\ requests' = requests + 1
    /\ resp'.op \in StaffViews \cup UploadViews \cup NationalViews
    /\ resp'.user = u

OneNewEntry(u, action, pid) ==
    /\ auditLog \subseteq auditLog'
    /\ Cardinality(auditLog' \ auditLog) = 1
    /\ \A e \in auditLog' \ auditLog :
          /\ e.action = action
          /\ e.user = u
          /\ e.project_center = profile[u]
          /\ e.project_center # NULL
          /\ e.participant_id = pid

NothingLogged == auditLog' = auditLog /\ participants' = participants

CentersExist ==
    /\ \A p \in participants : p.project_center \in centers
    /\ \A u \in Users : profile[u] # NULL => profile[u] \in centers

C17_ParticipantHasCenter ==
    /\ []CentersExist
    /\ [][
        /\ \A c \in centers \ centers' :
              /\ participants' = {p \in participants : p.project_center # c}
              /\ \A u \in Users :
                    profile'[u] = (IF profile[u] = c THEN NULL ELSE profile[u])
        /\ \A p \in participants' \ participants : p.project_center \in centers'
      ]_vars

\* center c1 was just deleted: its participant (pk 1) and the profile of
\* its staff user are gone
C17_Witness ==
    /\ resp.op = "admin_center_delete"
    /\ "c1" \notin centers
    /\ profile["staff1"] = NULL
    /\ \A p \in participants : p.pk # 1 /\ p.project_center # "c1"

\* C18: a file with two otherwise valid rows that carry the same
\* participant id, not yet stored.  The preview marks both rows valid; the
\* commit creates the participant from the first of them in file order and
\* counts the second as skipped (no error), so created is smaller than the
\* number of rows marked valid although the database is as it was at
\* preview.
DuplicateFile ==
    [header |-> "ok", rows |-> <<RawRow("c2", "p1", 45), RawRow("c1", "p1", 45)>>]

DuplicateDatabase ==
    /\ {"c1", "c2"} \subseteq centers
    /\ "p1" \notin StoredIds(participants)

C18_DuplicateInFile ==
    [][ /\ \A u \in Users :
              ( /\ Served("upload_post", u)
                /\ UploadFile(u, DuplicateFile)
                /\ is_national_or_superuser(u)
                /\ DuplicateDatabase )
              => /\ resp'.status = "preview"
                 /\ resp'.total = 2
                 /\ resp'.valid = 2
                 /\ session'[u].rows[1].is_valid
                 /\ session'[u].rows[2].is_valid
        /\ \A u \in Users :
              (Served("confirm_import", u) /\ Committing(u))
              => LET rows == session[u].rows IN
                 \A i \in 1..Len(rows), j \in 1..Len(rows) :
                    ( /\ i < j
                      /\ Passing(rows[i])
                      /\ Passing(rows[j])
                      /\ rows[i].participant_id = rows[j].participant_id
                      /\ \A k \in 1..(i - 1) :
                            Passing(rows[k]) =>
                               rows[k].participant_id # rows[i].participant_id )
                    => /\ \E p \in NewRows : MadeFrom(p, rows[i])
                       /\ Cardinality({p \in NewRows :
                              p.participant_id = rows[i].participant_id}) = 1
                       /\ rows[j].row_number \notin resp'.errors
                       /\ resp'.skipped >= 1
                       /\ resp'.created < PreviewValid(rows)
      ]_vars

\* the file was previewed and committed: one participant p1, in the center
\* of the first row (c2), one row skipped without an error
C18_Witness ==
    /\ resp.op = "confirm_import"
    /\ resp.status = "imported"
    /\ resp.created = 1
    /\ resp.skipped = 1
    /\ resp.errors = {}
    /\ \E p \in participants : p.participant_id = "p1" /\ p.project_center = "c2"

\* C19 (as claimed): the preview buffer holds rows of the session's most
\* recent upload request only: an upload POST that is rejected (no header,
\* or a required column missing) leaves no preview behind, and a
\* confirm-import that follows it creates no participant.
RejectedUpload(u) ==
    resp.op = "upload_post" /\ resp.user = u /\ resp.status = "parse_error"

C19_RejectedUploadLeavesNoPreview ==
    [][ \A u \in Users :
          /\ (Served("upload_post", u) /\ resp'.status = "parse_error")
                => ~session'[u].present
          /\ (Served("confirm_import", u) /\ RejectedUpload(u))
                => /\ participants' = participants
                   /\ resp'.status = "no_preview"
      ]_vars

\* the commit alone: a confirm-import right after a rejected upload creates
\* nothing
C19_CommitAfterRejectedUpload ==
    [][ \A u \in Users :
          (Served("confirm_import", u) /\ RejectedUpload(u))
          => participants' = participants
      ]_vars

\* C13: an audit write that fails does not change what the handler does to
\* the participants and the preview buffer, nor its response.
\* The staff and upload views (_log_action): the step of a handler whose
\* audit write fails stores, updates or removes the row, or commits the
\* preview and clears it, and answers as the handler whose write succeeds.
ViewsSurviveAuditFailure ==
    /\ \A u \in Users, d \in FormData :
          ( /\ Served("participant_add", u)
            /\ ParticipantAdd(u, "POST", d, FALSE)
            /\ AddGate(u) = ""
            /\ FullCleanOk(participants, d.pid, d.lat, NoPk) )
          => /\ resp'.status = "saved"
             /\ participants' = participants \cup
                   {NewParticipant(nextPk, profile[u], d.pid, d.lat)}
    /\ \A u \in Users, pk \in Pks, d \in FormData :
          ( /\ Served("participant_edit", u)
            /\ ParticipantEdit(u, pk, "POST", d, FALSE)
            /\ StaffGate(u) = ""
            /\ GetParticipant(participants, pk, profile[u]) # {}
            /\ FullCleanOk(participants, d.pid, d.lat, pk) )
          => /\ resp'.status = "saved"
             /\ participants' =
                   ParticipantUpdate(participants, pk, profile[u], d.pid, d.lat)
    /\ \A u \in Users, pk \in Pks :
          ( /\ Served("participant_delete", u)
            /\ ParticipantDelete(u, pk, "POST", FALSE)
            /\ StaffGate(u) = ""
            /\ GetParticipant(participants, pk, profile[u]) # {} )
          => /\ resp'.status = "deleted"
             /\ participants' =
                   participants \ GetParticipant(participants, pk, profile[u])
    /\ \A u \in Users :
          ( /\ Served("confirm_import", u)
            /\ ConfirmImport(u, FALSE)
            /\ Committing(u) )
          => LET done == CommitLoop(session[u].rows, centers,
                                    CommitStart(participants, nextPk))
             IN
             /\ resp'.status = "imported"
             /\ resp'.created = done.created
             /\ resp'.skipped = done.skipped
             /\ participants' = done.participants
             /\ session'[u] = NoSession

\* The participant admin (save_model / delete_model): the same of the add,
\* change and delete of a participant in the admin.
AdminSurvivesAuditFailure ==
    /\ \A u \in Users, pk \in Pks \cup {NoPk}, c \in Codes, d \in FormData :
          ( /\ Served("admin_participant_save", u)
            /\ AdminSaveParticipant(u, pk, c, d, FALSE)
            /\ c \in centers
            /\ FullCleanOk(participants, d.pid, d.lat, pk) )
          => /\ resp'.status = "saved"
             /\ \E p \in participants' :
                   p.participant_id = d.pid /\ p.project_center = c
    /\ \A u \in Users, pk \in Pks :
          ( /\ Served("admin_participant_delete", u)
            /\ AdminDeleteParticipant(u, pk, FALSE) )
          => /\ resp'.status = "deleted"
             /\ \A p \in participants' : p.pk # pk

\* C13, the staff and upload views alone
C13_ViewsSurviveAuditFailure == [][ViewsSurviveAuditFailure]_vars

\* C13 (as claimed): no handler of the application is blocked or changed by
\* a failing audit write
C13_AuditFailureNeverBlocks ==
    [][ViewsSurviveAuditFailure /\ AdminSurvivesAuditFailure]_vars

\* C12: two confirm-imports whose per-row steps interleave.  No two stored
\* rows ever share a participant_id; each commit has counted every row it
\* has passed exactly once, so created + skipped is the number of its rows
\* when it ends; the rows stored are the rows that were there plus the rows
\* the two commits counted as created; and when both have ended, every id
\* that a row of either batch could create is stored exactly once, the
\* commit that lost the row having counted it as skipped and gone on to its
\* remaining rows.
Running(u) == commit[u].pc # "idle"
Ended(u) == commit[u].pc = "done"

\* the rows of a batch that can be created: valid at preview, center there
Creatable(u) ==
    {i \in 1..Len(commit[u].rows) :
        /\ commit[u].rows[i].is_valid
        /\ commit[u].rows[i].center_code \in centers}

C12_ConcurrentCommits ==
    /\ UniqueIds(participants)
    /\ \A u \in Committers :
          Running(u) =>
             /\ commit[u].created + commit[u].skipped = commit[u].i - 1
             /\ commit[u].i <= Len(commit[u].rows) + 1
    /\ \A u \in Committers :
          Ended(u) =>
             /\ commit[u].created + commit[u].skipped = Len(commit[u].rows)
             /\ resp.user = u =>
                   resp.created + resp.skipped = Len(commit[u].rows)
    /\ Cardinality(participants) =
          2 + commit["natstaff"].created + commit["root"].created
    /\ (\A u \in Committers : Ended(u)) =>
          \A u \in Committers : \A i \in Creatable(u) :
             Cardinality({p \in participants :
                 p.participant_id = commit[u].rows[i].participant_id}) = 1

\* both commits have ended; one of them lost a row to the other after its
\* own checks had passed (its first data row, numbered 2, raised) and
\* still created its later row
C12_Witness ==
    /\ \A u \in Committers : Ended(u)
    /\ \E u \in Committers, v \in Committers :
          /\ u # v
          /\ commit[u].errors # {}
          /\ \E i \in 1..Len(commit[u].rows), j \in 1..Len(commit[v].rows) :
                /\ commit[u].rows[i].row_number \in commit[u].errors
                /\ commit[u].rows[i].participant_id
                      = commit[v].rows[j].participant_id
                /\ commit[u].rows[i].row_number = 2
          /\ commit[u].created = 1
          /\ commit[v].created >= 1

====
